---- MODULE Spec2Model ----
(***************************************************************************)
(* Regular expression -> DFA by the direct (Berry-Sethi) construction, as  *)
(* implemented in src/app.py (Flask host) and src/main.py (Kivy host).     *)
(* The two files hold the same RegexNode / RegexParser / annotate /        *)
(* compute_followpos / construct_dfa code; they differ in the handler that *)
(* drives the pipeline (result in app.py, MainApp.generate_dfa in main.py).*)
(*                                                                         *)
(* Python objects are modelled by a heap: a sequence of node records, a    *)
(* node's identity being its index.  This keeps the aliasing that the '+'  *)
(* desugaring creates (one RegexNode object reachable along two paths).    *)
(***************************************************************************)
EXTENDS Naturals, Sequences, FiniteSets, TLC

VARIABLES host, position_counter, positions, thr

vars == <<host, position_counter, positions, thr>>

(* ------------------------------ bounds --------------------------------- *)

\* longest regex typed in the single-conversion specification
MaxLen == 5
\* longest word run through an automaton when its language is compared
MaxWord == 3
\* longest regex / number of conversions in the sequential specification
MaxLenSeq == 2
MaxConversions == 2
\* longest regex in the worklist specification
MaxLenDfa == 4
\* longest regex in the two-request specification
MaxLenConc == 1

(* ---------------------------- vocabulary ------------------------------- *)

\* Python's None (current_char past the end, absent child, absent symbol)
None == "None"
NoError == ""
Alnum == {"a", "b"}
\* the characters a user may type: two alphanumerics, the operators, the
\* literal '#', and '$' for a character outside the accepted alphabet
Chars == Alnum \cup {"(", ")", "|", "*", "+", "#", "$"}
isalnum(c) == c \in Alnum

StringsUpTo(S, n) == UNION {[1..k -> S] : k \in 0..n}

(* -------------------------- Python set objects -------------------------- *)
\* A set or frozenset of positions is modelled by its hash table, the way
\* CPython keeps it: mask + 1 slots (a power of two), a slot holding a key, or
\* 0 when unused (positions are >= 1 and hash(i) = i; nothing is ever removed
\* from a set here, so no slot is a dummy and fill = used).  Iterating a set
\* walks the slots.  id tells objects apart where the code's result depends
\* on two operands being one object: the node whose annotate created the set,
\* 0 for a set no node holds.

\* slots of an empty set
PySet_MINSIZE == 8
\* slots tried after a collision before the probe jumps
LINEAR_PROBES == 9
\* bits of the hash that enter the probe at each jump
PERTURB_SHIFT == 5

\* a table of n unused slots
RECURSIVE set_table(_)
set_table(n) == IF n = 0 THEN <<>> ELSE Append(set_table(n - 1), 0)

\* set()
set_new == [id |-> 0, mask |-> PySet_MINSIZE - 1, table |-> set_table(PySet_MINSIZE)]

\* the elements of a set object
Elems(so) == {so.table[i] : i \in DOMAIN so.table} \ {0}
used(so) == Cardinality(Elems(so))

\* the keys in the slots from slot i (1-based) on
RECURSIVE set_next(_, _)
set_next(table, i) ==
    IF i > Len(table) THEN <<>>
    ELSE IF table[i] = 0 THEN set_next(table, i + 1)
    ELSE <<table[i]>> \o set_next(table, i + 1)

\* "for pos in so": the keys in slot order
SetOrder(so) == set_next(so.table, 1)

\* the slot (0-based) that holds key, or the unused slot the probe sequence
\* from slot i reaches first
RECURSIVE set_lookkey(_, _, _, _, _)
set_lookkey(table, mask, key, i, perturb) ==
    LET probes == IF i + LINEAR_PROBES <= mask THEN LINEAR_PROBES ELSE 0
        found == {j \in i..(i + probes) : table[j + 1] = 0 \/ table[j + 1] = key}
    IN  IF found # {} THEN CHOOSE j \in found : \A k \in found : j <= k
        ELSE set_lookkey(table, mask, key,
                 (i * 5 + 1 + perturb \div 2^PERTURB_SHIFT) % (mask + 1),
                 perturb \div 2^PERTURB_SHIFT)

\* a key known to be absent goes into the first unused slot of its probe
\* sequence
set_insert_clean(so, key) ==
    [so EXCEPT !.table[set_lookkey(so.table, so.mask, key,
                                   key % (so.mask + 1), key) + 1] = key]

RECURSIVE set_insert_all(_, _)
set_insert_all(so, keys) ==
    IF keys = <<>> THEN so
    ELSE set_insert_all(set_insert_clean(so, Head(keys)), Tail(keys))

RECURSIVE set_table_size(_, _)
set_table_size(newsize, minused) ==
    IF newsize <= minused THEN set_table_size(2 * newsize, minused) ELSE newsize

\* a table of the smallest power of two above minused, the keys re-inserted
\* in the old table's slot order; a minimal table that stays minimal is left
\* as it is
set_table_resize(so, minused) ==
    IF set_table_size(PySet_MINSIZE, minused) = PySet_MINSIZE
       /\ so.mask + 1 = PySet_MINSIZE
    THEN so
    ELSE set_insert_all(
             [so EXCEPT !.mask = set_table_size(PySet_MINSIZE, minused) - 1,
                        !.table =
                            set_table(set_table_size(PySet_MINSIZE, minused))],
             SetOrder(so))

\* the table grows fourfold once three fifths of it are in use
set_added(so) ==
    IF used(so) * 5 < so.mask * 3 THEN so ELSE set_table_resize(so, used(so) * 4)

\* so.add(key)
set_add_entry(so, key) ==
    IF key \in Elems(so) THEN so ELSE set_added(set_insert_clean(so, key))

RECURSIVE set_add_all(_, _)
set_add_all(so, keys) ==
    IF keys = <<>> THEN so
    ELSE set_add_all(set_add_entry(so, Head(keys)), Tail(keys))

\* the keys of other enter so, which has been resized for them: an empty
\* table of other's size takes other's slots as they are
set_merge_sized(so, other) ==
    IF used(so) = 0 /\ so.mask = other.mask THEN [so EXCEPT !.table = other.table]
    ELSE IF used(so) = 0 THEN set_insert_all(so, SetOrder(other))
    ELSE set_add_all(so, SetOrder(other))

\* so.update(other), other another set object: one resize at the start, for
\* the case that no key of other is in so
set_merge(so, other) ==
    IF used(other) = 0 THEN so
    ELSE IF (used(so) + used(other)) * 5 >= so.mask * 3
    THEN set_merge_sized(set_table_resize(so, (used(so) + used(other)) * 2), other)
    ELSE set_merge_sized(so, other)

\* frozenset(so), set(so), so.copy(): a new object filled from so
frozenset(so) == set_merge(set_new, so)

\* {key}
set_display(key, id) == [set_add_entry(set_new, key) EXCEPT !.id = id]

\* so.union(other): a copy of so updated with other, unless other is so
set_union(so, other, id) ==
    [(IF so.id # 0 /\ so.id = other.id THEN frozenset(so)
      ELSE set_merge(frozenset(so), other)) EXCEPT !.id = id]

(* ------------------------------ RegexNode ------------------------------ *)

RegexNode(type, left, right, symbol) ==
    [type |-> type, left |-> left, right |-> right, symbol |-> symbol,
     nullable |-> FALSE, firstpos |-> set_new, lastpos |-> set_new,
     position |-> 0]

(* ----------------------------- RegexParser ----------------------------- *)
\* parser state: pos (0-based index), heap of nodes built so far, node (the
\* value returned by the last production), err (the exception raised)

RegexParser(regex) == [pos |-> 0, heap |-> <<>>, node |-> 0, err |-> NoError]

current_char(regex, p) ==
    IF p.pos < Len(regex) THEN regex[p.pos + 1] ELSE None

advance(p) == [p EXCEPT !.pos = @ + 1]

NewNode(p, rec) ==
    [p EXCEPT !.heap = Append(@, rec), !.node = Len(p.heap) + 1]

Raise(p, msg) == [p EXCEPT !.err = msg, !.node = 0]

MismatchedParentheses == "Mismatched parentheses"
\* f'Unexpected character: {self.current_char}'
UnexpectedCharacter(c) ==
    CASE c = None -> "Unexpected character: None"
      [] c = ")" -> "Unexpected character: )"
      [] c = "|" -> "Unexpected character: |"
      [] c = "*" -> "Unexpected character: *"
      [] c = "+" -> "Unexpected character: +"
      [] c = "$" -> "Unexpected character: $"
      [] OTHER -> "Unexpected character: " \o c

RECURSIVE expression(_, _), expression_while(_, _), term(_, _),
          term_while(_, _), factor(_, _), factor_while(_, _), base(_, _)

\* base without the test for the closing parenthesis
base_unchecked(regex, p) ==
    LET c == current_char(regex, p) IN
    IF c = "(" THEN
        LET q == expression(regex, advance(p)) IN
        IF q.err # NoError THEN q ELSE advance(q)
    ELSE IF c # None /\ (isalnum(c) \/ c = "#") THEN
        NewNode(advance(p), RegexNode("symbol", 0, 0, c))
    ELSE Raise(p, UnexpectedCharacter(c))

base(regex, p) ==
    LET c == current_char(regex, p) IN
    IF c = "(" THEN
        LET q == expression(regex, advance(p)) IN
        IF q.err # NoError THEN q
        ELSE IF current_char(regex, q) # ")" THEN Raise(q, MismatchedParentheses)
        ELSE advance(q)
    ELSE IF c # None /\ (isalnum(c) \/ c = "#") THEN
        NewNode(advance(p), RegexNode("symbol", 0, 0, c))
    ELSE Raise(p, UnexpectedCharacter(c))

factor_while(regex, p) ==
    LET c == current_char(regex, p) IN
    IF c = "*" THEN
        factor_while(regex, NewNode(advance(p), RegexNode("star", p.node, 0, None)))
    ELSE IF c = "+" THEN
        \* RegexNode('concat', left=node, right=RegexNode('star', left=node)):
        \* the same node object is the left operand and the star's operand
        LET s == NewNode(advance(p), RegexNode("star", p.node, 0, None)) IN
        factor_while(regex, NewNode(s, RegexNode("concat", p.node, s.node, None)))
    ELSE p

factor(regex, p) ==
    LET b == base(regex, p) IN
    IF b.err # NoError THEN b ELSE factor_while(regex, b)

term_while(regex, p) ==
    LET c == current_char(regex, p) IN
    IF c # None /\ c \notin {"|", ")"} THEN
        LET f == factor(regex, p) IN
        IF f.err # NoError THEN f
        ELSE term_while(regex, NewNode(f, RegexNode("concat", p.node, f.node, None)))
    ELSE p

term(regex, p) ==
    LET f == factor(regex, p) IN
    IF f.err # NoError THEN f ELSE term_while(regex, f)

expression_while(regex, p) ==
    IF current_char(regex, p) = "|" THEN
        LET t == term(regex, advance(p)) IN
        IF t.err # NoError THEN t
        ELSE expression_while(regex, NewNode(t, RegexNode("union", p.node, t.node, None)))
    ELSE p

expression(regex, p) ==
    LET t == term(regex, p) IN
    IF t.err # NoError THEN t ELSE expression_while(regex, t)

parse(regex) ==
    LET e == expression(regex, RegexParser(regex)) IN
    IF e.err # NoError THEN e
    ELSE LET h == NewNode(e, RegexNode("symbol", 0, 0, "#"))
         IN  NewNode(h, RegexNode("concat", e.node, h.node, None))

(* ------------------------------- annotate ------------------------------ *)
\* g: [heap, position_counter, positions]; positions is the dict
\* PositionId -> symbol, a function whose domain is the set of keys

DictSet(d, k, v) == [x \in (DOMAIN d) \cup {k} |-> IF x = k THEN v ELSE d[x]]

\* the symbol branch: the leaf takes the counter's value, records its symbol
\* under it, and the counter moves on
annotate_symbol(g, n) ==
    LET c == g.position_counter IN
    [heap |-> [g.heap EXCEPT ![n].nullable = FALSE,
                             ![n].firstpos = set_display(c, n),
                             ![n].lastpos = set_display(c, n),
                             ![n].position = c],
     position_counter |-> c + 1,
     positions |-> DictSet(g.positions, c, g.heap[n].symbol)]

\* annotate's inner branch with a concat's firstpos taken from the left
\* operand alone, whether or not that operand is nullable
annotate_inner_left_only(heap, n) ==
    LET node == heap[n]
        left == heap[node.left]
    IN
    IF node.type = "concat" THEN
        LET right == heap[node.right] IN
        [heap EXCEPT ![n].nullable = left.nullable /\ right.nullable,
                     ![n].firstpos = left.firstpos,
                     ![n].lastpos = IF ~right.nullable THEN right.lastpos
                                    ELSE set_union(left.lastpos, right.lastpos, n)]
    ELSE IF node.type = "union" THEN
        LET right == heap[node.right] IN
        [heap EXCEPT ![n].nullable = left.nullable \/ right.nullable,
                     ![n].firstpos = set_union(left.firstpos, right.firstpos, n),
                     ![n].lastpos = set_union(left.lastpos, right.lastpos, n)]
    ELSE IF node.type = "star" THEN
        [heap EXCEPT ![n].nullable = TRUE,
                     ![n].firstpos = left.firstpos,
                     ![n].lastpos = left.lastpos]
    ELSE heap

\* the attributes of an inner node, read from its (already annotated) children
annotate_inner(heap, n) ==
    LET node == heap[n]
        left == heap[node.left]
    IN
    IF node.type = "concat" THEN
        LET right == heap[node.right] IN
        [heap EXCEPT ![n].nullable = left.nullable /\ right.nullable,
                     ![n].firstpos = IF ~left.nullable THEN left.firstpos
                                     ELSE set_union(left.firstpos,
                                                    right.firstpos, n),
                     ![n].lastpos = IF ~right.nullable THEN right.lastpos
                                    ELSE set_union(left.lastpos, right.lastpos, n)]
    ELSE IF node.type = "union" THEN
        LET right == heap[node.right] IN
        [heap EXCEPT ![n].nullable = left.nullable \/ right.nullable,
                     ![n].firstpos = set_union(left.firstpos, right.firstpos, n),
                     ![n].lastpos = set_union(left.lastpos, right.lastpos, n)]
    ELSE IF node.type = "star" THEN
        [heap EXCEPT ![n].nullable = TRUE,
                     ![n].firstpos = left.firstpos,
                     ![n].lastpos = left.lastpos]
    ELSE heap

RECURSIVE annotate(_, _)
annotate(g, n) ==
    IF g.heap[n].type = "symbol" THEN annotate_symbol(g, n)
    ELSE
        LET l == g.heap[n].left
            r == g.heap[n].right
            g1 == IF l # 0 THEN annotate(g, l) ELSE g
            g2 == IF r # 0 THEN annotate(g1, r) ELSE g1
        IN  [g2 EXCEPT !.heap = annotate_inner(g2.heap, n)]

(* --------------------------- compute_followpos ------------------------- *)

\* table.get(k, set())
DictGet(table, k) == IF k \in DOMAIN table THEN table[k] ELSE set_new

\* for pos in keys: table.setdefault(pos, set()).update(add)
SetDefaultUpdate(table, keys, add) ==
    [k \in (DOMAIN table) \cup keys |->
        IF k \in keys THEN set_merge(DictGet(table, k), add) ELSE table[k]]

RECURSIVE compute_followpos(_, _, _)
\* compute_followpos with the star branch only: a concat adds nothing
compute_followpos_star_only(heap, n, followpos_table) ==
    LET node == heap[n]
        t0 == IF node.type = "star" THEN
                  SetDefaultUpdate(followpos_table, Elems(node.lastpos),
                                   node.firstpos)
              ELSE followpos_table
        t1 == IF node.left # 0 THEN compute_followpos(heap, node.left, t0) ELSE t0
    IN  IF node.right # 0 THEN compute_followpos(heap, node.right, t1) ELSE t1

compute_followpos(heap, n, followpos_table) ==
    LET node == heap[n]
        t0 == IF node.type = "concat" THEN
                  SetDefaultUpdate(followpos_table, Elems(heap[node.left].lastpos),
                                   heap[node.right].firstpos)
              ELSE IF node.type = "star" THEN
                  SetDefaultUpdate(followpos_table, Elems(node.lastpos),
                                   node.firstpos)
              ELSE followpos_table
        t1 == IF node.left # 0 THEN compute_followpos(heap, node.left, t0) ELSE t0
    IN  IF node.right # 0 THEN compute_followpos(heap, node.right, t1) ELSE t1

(* ----------------------------- construct_dfa ---------------------------- *)
\* d: the locals of construct_dfa.  states is the list of transition dicts
\* (state i is states[i+1]); state_pos maps a state to its frozenset;
\* pos_state, keyed by frozenset, is keyed here by the frozenset's elements
\* (frozensets are equal when their elements are); queue is the deque; err
\* the exception raised (a KeyError on the global positions dict)

\* str(e) of the KeyError raised by positions[pos]: the key
KeyError(pos) == ToString(pos)

\* any(positions[pos] == '#' for pos in order): "True", "False", or the
\* KeyError raised by a position missing from the table before a hit
RECURSIVE any_end_marker(_, _)
any_end_marker(order, table) ==
    IF order = <<>> THEN "False"
    ELSE IF Head(order) \notin DOMAIN table THEN KeyError(Head(order))
    ELSE IF table[Head(order)] = "#" THEN "True"
    ELSE any_end_marker(Tail(order), table)

\* lines 126-139: the start state
dfa_init(root_firstpos) ==
    [states |-> << <<>> >>,
     state_pos |-> [i \in {0} |-> frozenset(root_firstpos)],
     pos_state |-> [s \in {Elems(root_firstpos)} |-> 0],
     queue |-> <<0>>,
     accepting_states |-> {},
     err |-> NoError]

\* lines 140-141, 163-164: what any(...) gave for the state just created
dfa_accept(d, state_id, hit) ==
    IF hit \notin {"True", "False"} THEN [d EXCEPT !.err = hit]
    ELSE IF hit = "True" THEN [d EXCEPT !.accepting_states = @ \cup {state_id}]
    ELSE d

\* lines 126-141
dfa_start(root_firstpos, table) ==
    dfa_accept(dfa_init(root_firstpos), 0,
               any_end_marker(SetOrder(frozenset(root_firstpos)), table))

\* lines 147-151: group the positions of the dequeued state by symbol, in the
\* order the positions are iterated; symbols keeps the dict's insertion order
NoSymbolPosMap == [symbols |-> <<>>, map |-> <<>>, err |-> NoError]

RECURSIVE symbol_pos_map(_, _, _, _)
\* symbol_pos_map with the entry assigned instead of updated: the followpos
\* of the last position carrying a symbol replaces the earlier ones
symbol_pos_map_assigned(order, m, followpos_table, table) ==
    IF order = <<>> THEN m
    ELSE
        LET pos == Head(order) IN
        IF pos \notin DOMAIN table THEN [m EXCEPT !.err = KeyError(pos)]
        ELSE
            LET symbol == table[pos] IN
            IF symbol = "#" THEN symbol_pos_map(Tail(order), m, followpos_table, table)
            ELSE symbol_pos_map(Tail(order),
                     [m EXCEPT !.symbols = IF symbol \in DOMAIN m.map THEN @
                                           ELSE Append(@, symbol),
                               !.map = DictSet(m.map, symbol,
                                               DictGet(followpos_table, pos))],
                     followpos_table, table)

symbol_pos_map(order, m, followpos_table, table) ==
    IF order = <<>> THEN m
    ELSE
        LET pos == Head(order) IN
        IF pos \notin DOMAIN table THEN [m EXCEPT !.err = KeyError(pos)]
        ELSE
            LET symbol == table[pos] IN
            IF symbol = "#" THEN symbol_pos_map(Tail(order), m, followpos_table, table)
            ELSE symbol_pos_map(Tail(order),
                     [m EXCEPT !.symbols = IF symbol \in DOMAIN m.map THEN @
                                           ELSE Append(@, symbol),
                               !.map = SetDefaultUpdate(m.map, {symbol},
                                           DictGet(followpos_table, pos))],
                     followpos_table, table)

\* lines 155-156, 165: the position-set is a state already
dfa_known_state(d, state_id, symbol, next_pos_set) ==
    [d EXCEPT !.states[state_id + 1] =
                  DictSet(@, symbol, d.pos_state[Elems(next_pos_set)])]

\* dfa_new_state with "pos_state[next_pos_frozen] = next_state_id" left out
dfa_new_state_unrecorded(d, state_id, symbol, next_pos_set) ==
    [states |-> [Append(d.states, <<>>) EXCEPT ![state_id + 1] =
                    DictSet(@, symbol, Len(d.states))],
     state_pos |-> DictSet(d.state_pos, Len(d.states), frozenset(next_pos_set)),
     pos_state |-> d.pos_state,
     queue |-> Append(d.queue, Len(d.states)),
     accepting_states |-> d.accepting_states,
     err |-> NoError]

\* lines 154, 158-162, 165: a new state for a position-set not seen before
dfa_new_state(d, state_id, symbol, next_pos_set) ==
    [states |-> [Append(d.states, <<>>) EXCEPT ![state_id + 1] =
                    DictSet(@, symbol, Len(d.states))],
     state_pos |-> DictSet(d.state_pos, Len(d.states), frozenset(next_pos_set)),
     pos_state |-> DictSet(d.pos_state, Elems(next_pos_set), Len(d.states)),
     queue |-> Append(d.queue, Len(d.states)),
     accepting_states |-> d.accepting_states,
     err |-> NoError]

\* lines 154-165: one symbol of the dequeued state
dfa_transition(d, state_id, symbol, next_pos_set, table) ==
    IF Elems(next_pos_set) \in DOMAIN d.pos_state
    THEN dfa_known_state(d, state_id, symbol, next_pos_set)
    ELSE dfa_accept(dfa_new_state(d, state_id, symbol, next_pos_set),
                    Len(d.states),
                    any_end_marker(SetOrder(next_pos_set), table))

RECURSIVE dfa_transitions(_, _, _, _, _)
dfa_transitions(d, state_id, symbols, map, table) ==
    IF symbols = <<>> \/ d.err # NoError THEN d
    ELSE dfa_transitions(
             dfa_transition(d, state_id, Head(symbols), map[Head(symbols)], table),
             state_id, Tail(symbols), map, table)

\* lines 144-165: one pass of the while loop, the positions of the dequeued
\* state being iterated in the order pos_order
dfa_iteration(d, followpos_table, table, pos_order) ==
    LET state_id == Head(d.queue)
        m == symbol_pos_map(pos_order, NoSymbolPosMap, followpos_table, table)
        d1 == [d EXCEPT !.queue = Tail(@)]
    IN
    IF m.err # NoError THEN [d1 EXCEPT !.err = m.err]
    ELSE dfa_transitions(d1, state_id, m.symbols, m.map, table)

RECURSIVE dfa_while(_, _, _)
dfa_while(d, followpos_table, table) ==
    IF d.queue = <<>> \/ d.err # NoError THEN d
    ELSE dfa_while(
             dfa_iteration(d, followpos_table, table,
                           SetOrder(d.state_pos[Head(d.queue)])),
             followpos_table, table)

construct_dfa(root_firstpos, followpos_table, table) ==
    dfa_while(dfa_start(root_firstpos, table), followpos_table, table)

NoDfa ==
    [states |-> <<>>, state_pos |-> <<>>, pos_state |-> <<>>, queue |-> <<>>,
     accepting_states |-> {}, err |-> NoError]

(* ------------------------------ handlers ------------------------------- *)
\* out: what the handler answers.  status "ok": the page with the automaton
\* (states, accepting_states as drawn); "error": the page or toast
\* "Invalid regular expression: {message}"; "redirect": back to the form.
NoOut ==
    [status |-> "none", message |-> NoError, states |-> <<>>,
     accepting_states |-> {}]

ErrorOut(e) == [NoOut EXCEPT !.status = "error", !.message = e]

\* the TypeError of main.py line 218, visualize_dfa(states, accepting_states):
\* the function of line 178 takes a third argument, image_path
MissingImagePath ==
    "visualize_dfa() missing 1 required positional argument: 'image_path'"

\* what follows construct_dfa's return in the handler: app.py lines 212-219
\* draw the automaton and answer with it; main.py line 218 raises
Drawn(h, d) ==
    IF h = "main" THEN ErrorOut(MissingImagePath)
    ELSE [status |-> "ok", message |-> NoError, states |-> d.states,
          accepting_states |-> d.accepting_states]

\* the reset with "positions = {}" left out
ResetCounterOnly(g) == [position_counter |-> 1, positions |-> g.positions]

\* lines 202-203 (app.py), 209-210 (main.py): "Reset global variables"
ResetGlobals(g) == [position_counter |-> 1, positions |-> <<>>]

\* The try block of result / generate_dfa, one definition per statement,
\* each handing its value to the next: the globals it leaves, the locals it
\* built, and what the handler answers.

\* states, accepting_states = construct_dfa(root, followpos_table) has run
Constructed(h, p, a, f, d) ==
    [position_counter |-> a.position_counter, positions |-> a.positions,
     parser |-> [pos |-> p.pos, err |-> p.err],
     heap |-> a.heap, root |-> p.node, followpos_table |-> f, dfa |-> d,
     out |-> IF d.err # NoError THEN ErrorOut(d.err) ELSE Drawn(h, d)]

\* compute_followpos(root, followpos_table) has run
FollowposComputed(h, p, a, f) ==
    Constructed(h, p, a, f,
                construct_dfa(a.heap[p.node].firstpos, f, a.positions))

\* annotate(root) has run
Annotated(h, p, a) ==
    FollowposComputed(h, p, a, compute_followpos(a.heap, p.node, <<>>))

\* root = parser.parse() has run, or has raised
Parsed(h, g0, p) ==
    IF p.err # NoError THEN
        [position_counter |-> g0.position_counter, positions |-> g0.positions,
         parser |-> [pos |-> p.pos, err |-> p.err],
         heap |-> p.heap, root |-> 0, followpos_table |-> <<>>, dfa |-> NoDfa,
         out |-> ErrorOut(p.err)]
    ELSE
        Annotated(h, p, annotate([heap |-> p.heap,
                                  position_counter |-> g0.position_counter,
                                  positions |-> g0.positions], p.node))

Conversion(h, regex, g) == Parsed(h, ResetGlobals(g), parse(regex))

Globals == [position_counter |-> position_counter, positions |-> positions]

\* the locals of the statement a thread is in the middle of: the line of
\* annotate's symbol branch it is about to run; the positions a for loop or
\* generator still has to visit; the dequeued state, its symbol_pos_map and
\* the symbols of it still to handle
NoFrame ==
    [line |-> 0, iter |-> <<>>, state_id |-> 0, symbol_pos_map |-> NoSymbolPosMap,
     items |-> <<>>]

\* a request that has arrived and not yet run; served counts the requests
\* this worker has answered before it
Idle(regex, served) ==
    [pc |-> "request", regex |-> regex, served |-> served,
     parser |-> [pos |-> 0, err |-> NoError],
     heap |-> <<>>, root |-> 0, todo |-> <<>>, followpos_table |-> <<>>,
     dfa |-> NoDfa, frame |-> NoFrame, out |-> NoOut]

Finished(t, c) ==
    [pc |-> "done", regex |-> thr[t].regex, served |-> thr[t].served + 1,
     parser |-> c.parser, heap |-> c.heap, root |-> c.root, todo |-> <<>>,
     followpos_table |-> c.followpos_table, dfa |-> c.dfa, frame |-> NoFrame,
     out |-> c.out]

Redirected(t) ==
    [thr[t] EXCEPT !.pc = "done", !.served = @ + 1, !.out.status = "redirect"]

\* the try block has run as c: the globals and the thread after it
Handled(t, c) ==
    /\ position_counter' = c.position_counter
    /\ positions' = c.positions
    /\ thr' = [thr EXCEPT ![t] = Finished(t, c)]

\* app.py, result(): an empty regex is redirected before the try block
result(t) ==
    /\ host = "app"
    /\ thr[t].pc = "request"
    /\ IF thr[t].regex = <<>> THEN
           /\ thr' = [thr EXCEPT ![t] = Redirected(t)]
           /\ UNCHANGED <<position_counter, positions>>
       ELSE Handled(t, Conversion("app", thr[t].regex, Globals))
    /\ UNCHANGED host

\* main.py, MainApp.generate_dfa(): the text field's content goes straight
\* into the try block, which never gets past line 218
generate_dfa(t) ==
    /\ host = "main"
    /\ thr[t].pc = "request"
    /\ Handled(t, Conversion("main", thr[t].regex, Globals))
    /\ UNCHANGED host

(* ------------- Spec: one conversion in a fresh process ------------------ *)

Regexes == StringsUpTo(Chars, MaxLen)

Init ==
    /\ host \in {"app", "main"}
    /\ position_counter = 1
    /\ positions = <<>>
    /\ \E r \in Regexes : thr = [t \in {1} |-> Idle(r, 0)]

Next == result(1) \/ generate_dfa(1)

Spec == Init /\ [][Next]_vars

Done == thr[1].pc = "done"
\* construct_dfa has returned its automaton (thr[1].dfa): the handler answers
\* with it, or fails at drawing it
Ok ==
    /\ Done
    /\ \/ thr[1].out.status = "ok"
       \/ thr[1].out.status = "error" /\ thr[1].out.message = MissingImagePath

(* -------- SpecSeq: one worker answering requests one after another ------ *)

RegexesSeq == StringsUpTo(Chars, MaxLenSeq)

InitSeq ==
    /\ host \in {"app", "main"}
    /\ position_counter = 1
    /\ positions = <<>>
    /\ \E r \in RegexesSeq : thr = [t \in {1} |-> Idle(r, 0)]

\* the next request (form submission, button press) reaches the worker
NextRequest(t) ==
    /\ thr[t].pc = "done"
    /\ thr[t].served < MaxConversions
    /\ \E r \in RegexesSeq : thr' = [thr EXCEPT ![t] = Idle(r, thr[t].served)]
    /\ UNCHANGED <<host, position_counter, positions>>

NextSeq == result(1) \/ generate_dfa(1) \/ NextRequest(1)

SpecSeq == InitSeq /\ [][NextSeq]_vars

(* ------------- the handler's try block, statement by statement ---------- *)
\* A thread's tree, followpos table and construct_dfa locals are its own;
\* position_counter and positions are the module's globals.  A step is a run
\* of statements that touches the globals at most once, at its first line:
\*   pc "request"   before line 202
\*      "L203"      before line 203
\*      "annotate"  in annotate, at node Head(todo); in the symbol branch
\*                  frame.line is the line to run next (84..88)
\*      "construct" before construct_dfa
\*      "L140"      in the generator of line 140
\*      "loop"      at the while of line 143
\*      "L149"      in the for loop of line 148, before line 149
\*      "L153"      in the for loop of line 153
\*      "L163"      in the generator of line 163
\*      "done"      the handler has answered

\* the nodes annotate visits, in the order it visits them (post-order; a
\* shared subtree is visited once per path)
RECURSIVE annotate_visits(_, _)
annotate_visits(heap, n) ==
    IF n = 0 THEN <<>>
    ELSE IF heap[n].type = "symbol" THEN <<n>>
    ELSE annotate_visits(heap, heap[n].left)
             \o annotate_visits(heap, heap[n].right) \o <<n>>

Failed(t, msg) ==
    [thr[t] EXCEPT !.pc = "done", !.served = @ + 1, !.todo = <<>>,
                   !.frame = NoFrame, !.out = ErrorOut(msg)]

\* parser.parse() has returned or raised p
StartParsed(t, p) ==
    IF p.err # NoError
    THEN [Failed(t, p.err) EXCEPT !.parser = [pos |-> p.pos, err |-> p.err],
                                  !.heap = p.heap]
    ELSE [thr[t] EXCEPT !.pc = "annotate",
                        !.parser = [pos |-> p.pos, err |-> p.err],
                        !.heap = p.heap, !.root = p.node,
                        !.todo = annotate_visits(p.heap, p.node),
                        !.frame.line = 84]

\* lines 195-202: the redirect of an empty regex (app.py), or
\* "position_counter = 1"
Line202(t) ==
    /\ thr[t].pc = "request"
    /\ IF host = "app" /\ thr[t].regex = <<>> THEN
           /\ thr' = [thr EXCEPT ![t] = Redirected(t)]
           /\ UNCHANGED position_counter
       ELSE
           /\ position_counter' = ResetGlobals(Globals).position_counter
           /\ thr' = [thr EXCEPT ![t].pc = "L203"]
    /\ UNCHANGED <<host, positions>>

\* lines 203-206: "positions = {}", then the parser (which touches no global)
Line203(t) ==
    /\ thr[t].pc = "L203"
    /\ positions' = ResetGlobals(Globals).positions
    /\ thr' = [thr EXCEPT ![t] = StartParsed(t, parse(thr[t].regex))]
    /\ UNCHANGED <<host, position_counter>>

AtSymbol(t, line) ==
    /\ thr[t].pc = "annotate"
    /\ thr[t].heap[Head(thr[t].todo)].type = "symbol"
    /\ thr[t].frame.line = line

\* annotate has finished the node Head(todo), leaving the tree as heap: the
\* next node, or after the last one compute_followpos (lines 208-209)
Visited(t, heap) ==
    IF Tail(thr[t].todo) # <<>>
    THEN [thr[t] EXCEPT !.heap = heap, !.todo = Tail(@), !.frame.line = 84]
    ELSE [thr[t] EXCEPT !.pc = "construct", !.heap = heap, !.todo = <<>>,
                        !.frame = NoFrame,
                        !.followpos_table =
                            compute_followpos(heap, thr[t].root, <<>>)]

\* lines 83-84: node.firstpos = {position_counter}
Line84(t) ==
    /\ AtSymbol(t, 84)
    /\ thr' = [thr EXCEPT ![t].heap[Head(thr[t].todo)].nullable = FALSE,
                          ![t].heap[Head(thr[t].todo)].firstpos =
                              set_display(position_counter, Head(thr[t].todo)),
                          ![t].frame.line = 85]
    /\ UNCHANGED <<host, position_counter, positions>>

\* line 85: node.lastpos = {position_counter}
Line85(t) ==
    /\ AtSymbol(t, 85)
    /\ thr' = [thr EXCEPT ![t].heap[Head(thr[t].todo)].lastpos =
                              set_display(position_counter, Head(thr[t].todo)),
                          ![t].frame.line = 86]
    /\ UNCHANGED <<host, position_counter, positions>>

\* line 86: node.position = position_counter
Line86(t) ==
    /\ AtSymbol(t, 86)
    /\ thr' = [thr EXCEPT ![t].heap[Head(thr[t].todo)].position = position_counter,
                          ![t].frame.line = 87]
    /\ UNCHANGED <<host, position_counter, positions>>

\* line 87: positions[position_counter] = node.symbol
Line87(t) ==
    /\ AtSymbol(t, 87)
    /\ positions' = DictSet(positions, position_counter,
                            thr[t].heap[Head(thr[t].todo)].symbol)
    /\ thr' = [thr EXCEPT ![t].frame.line = 88]
    /\ UNCHANGED <<host, position_counter>>

\* line 88: position_counter += 1, and the return to the caller
Line88(t) ==
    /\ AtSymbol(t, 88)
    /\ position_counter' = position_counter + 1
    /\ thr' = [thr EXCEPT ![t] = Visited(t, thr[t].heap)]
    /\ UNCHANGED <<host, positions>>

\* lines 97-108: the attributes of an inner node, from its children's
AnnotateInner(t) ==
    /\ thr[t].pc = "annotate"
    /\ thr[t].heap[Head(thr[t].todo)].type # "symbol"
    /\ thr' = [thr EXCEPT ![t] =
                  Visited(t, annotate_inner(thr[t].heap, Head(thr[t].todo)))]
    /\ UNCHANGED <<host, position_counter, positions>>

\* construct_dfa up to its while loop
DfaStart(t) ==
    /\ thr[t].pc = "construct"
    /\ LET d == dfa_start(thr[t].heap[thr[t].root].firstpos, positions) IN
       thr' = [thr EXCEPT ![t] =
           IF d.err # NoError THEN Failed(t, d.err)
           ELSE [thr[t] EXCEPT !.pc = "loop", !.dfa = d]]
    /\ UNCHANGED <<host, position_counter, positions>>

\* one pass of the while loop, the dequeued state's positions iterated in
\* one of the orders in Orders
DfaLoop(t, Orders) ==
    /\ thr[t].pc = "loop"
    /\ thr[t].dfa.queue # <<>>
    /\ \E order \in Orders :
           LET d == dfa_iteration(thr[t].dfa, thr[t].followpos_table,
                                  positions, order)
           IN
           thr' = [thr EXCEPT ![t] =
               IF d.err # NoError THEN Failed(t, d.err)
               ELSE [thr[t] EXCEPT !.dfa = d]]
    /\ UNCHANGED <<host, position_counter, positions>>

\* the queue is empty: return states, accepting_states, and the rest of the
\* try block
Return(t) ==
    /\ thr[t].pc = "loop"
    /\ thr[t].dfa.queue = <<>>
    /\ thr' = [thr EXCEPT ![t].pc = "done", ![t].served = @ + 1,
                          ![t].out = Drawn(host, thr[t].dfa)]
    /\ UNCHANGED <<host, position_counter, positions>>

Dequeued(t) == thr[t].dfa.state_pos[Head(thr[t].dfa.queue)]

(* ------ SpecDfa: the worklist, with the iteration order left open ------- *)

RegexesDfa == StringsUpTo(Chars, MaxLenDfa)

IterationOrders(S) ==
    {f \in [1..Cardinality(S) -> S] :
        \A i, j \in 1..Cardinality(S) : i # j => f[i] # f[j]}

InitDfa ==
    /\ host \in {"app", "main"}
    /\ position_counter = 1
    /\ positions = <<>>
    /\ \E r \in RegexesDfa : thr = [t \in {1} |-> Idle(r, 0)]

\* a set's iteration order is not fixed by the language: any order
DfaLoopAnyOrder(t) ==
    /\ thr[t].pc = "loop"
    /\ thr[t].dfa.queue # <<>>
    /\ DfaLoop(t, IterationOrders(Elems(Dequeued(t))))

NextDfa ==
    \/ Line202(1)
    \/ Line203(1)
    \/ Line84(1)
    \/ Line85(1)
    \/ Line86(1)
    \/ Line87(1)
    \/ Line88(1)
    \/ AnnotateInner(1)
    \/ DfaStart(1)
    \/ DfaLoopAnyOrder(1)
    \/ Return(1)

SpecDfa == InitDfa /\ [][NextDfa]_vars

(* ------ SpecConc: two requests served by two threads of one process ----- *)
\* construct_dfa line by line: every read of positions[pos] is a step of its
\* own, the statements between two reads run with the read before them

\* the generator of line 140 or 163 has something left to read, or any() has
\* its answer and the thread goes on at pc
AnyOrElse(t, rest, pc) ==
    IF rest # <<>> THEN [thr[t] EXCEPT !.frame.iter = rest]
    ELSE [thr[t] EXCEPT !.pc = pc, !.frame.iter = <<>>]

\* one read of positions[pos] in any(positions[pos] == '#' for pos in ...),
\* the state any() is asked about being state_id
AnyStep(t, state_id, pc) ==
    IF thr[t].frame.iter = <<>> THEN [thr[t] EXCEPT !.pc = pc]
    ELSE IF Head(thr[t].frame.iter) \notin DOMAIN positions
    THEN Failed(t, KeyError(Head(thr[t].frame.iter)))
    ELSE IF positions[Head(thr[t].frame.iter)] = "#"
    THEN [thr[t] EXCEPT !.pc = pc, !.frame.iter = <<>>,
                        !.dfa = dfa_accept(@, state_id, "True")]
    ELSE AnyOrElse(t, Tail(thr[t].frame.iter), pc)

\* lines 126-139
Line126(t) ==
    /\ thr[t].pc = "construct"
    /\ thr' = [thr EXCEPT
                  ![t].pc = "L140",
                  ![t].dfa = dfa_init(thr[t].heap[thr[t].root].firstpos),
                  ![t].frame.iter =
                      SetOrder(frozenset(thr[t].heap[thr[t].root].firstpos))]
    /\ UNCHANGED <<host, position_counter, positions>>

\* lines 140-141
Line140(t) ==
    /\ thr[t].pc = "L140"
    /\ thr' = [thr EXCEPT ![t] = AnyStep(t, 0, "loop")]
    /\ UNCHANGED <<host, position_counter, positions>>

\* lines 143-148: a state leaves the queue
Line144(t) ==
    /\ thr[t].pc = "loop"
    /\ thr[t].dfa.queue # <<>>
    /\ thr' = [thr EXCEPT
                  ![t].pc = IF SetOrder(Dequeued(t)) = <<>> THEN "L153" ELSE "L149",
                  ![t].dfa.queue = Tail(@),
                  ![t].frame = [NoFrame EXCEPT !.state_id = Head(thr[t].dfa.queue),
                                               !.iter = SetOrder(Dequeued(t))]]
    /\ UNCHANGED <<host, position_counter, positions>>

\* the symbol_pos_map m after one more position: the for loop of line 148
\* goes on, or hands m's items to the for loop of line 153
Grouped(t, m) ==
    IF m.err # NoError THEN Failed(t, m.err)
    ELSE IF Tail(thr[t].frame.iter) # <<>>
    THEN [thr[t] EXCEPT !.frame.iter = Tail(@), !.frame.symbol_pos_map = m]
    ELSE [thr[t] EXCEPT !.pc = "L153", !.frame.iter = <<>>,
                        !.frame.symbol_pos_map = m, !.frame.items = m.symbols]

\* lines 149-151: one position of the dequeued state
Line149(t) ==
    /\ thr[t].pc = "L149"
    /\ thr' = [thr EXCEPT ![t] =
                  Grouped(t, symbol_pos_map(<<Head(thr[t].frame.iter)>>,
                                            thr[t].frame.symbol_pos_map,
                                            thr[t].followpos_table, positions))]
    /\ UNCHANGED <<host, position_counter, positions>>

\* lines 153-162, 165: one symbol of the dequeued state, up to the generator
\* of line 163; with no symbol left, back to the while
Line153(t) ==
    /\ thr[t].pc = "L153"
    /\ LET items == thr[t].frame.items
           state_id == thr[t].frame.state_id
       IN
       thr' = [thr EXCEPT ![t] =
           IF items = <<>> THEN [thr[t] EXCEPT !.pc = "loop", !.frame = NoFrame]
           ELSE IF Elems(thr[t].frame.symbol_pos_map.map[Head(items)])
                       \in DOMAIN thr[t].dfa.pos_state
           THEN [thr[t] EXCEPT
                    !.dfa = dfa_known_state(@, state_id, Head(items),
                                thr[t].frame.symbol_pos_map.map[Head(items)]),
                    !.frame.items = Tail(@)]
           ELSE [thr[t] EXCEPT
                    !.pc = "L163",
                    !.dfa = dfa_new_state(@, state_id, Head(items),
                                thr[t].frame.symbol_pos_map.map[Head(items)]),
                    !.frame.items = Tail(@),
                    !.frame.iter =
                        SetOrder(thr[t].frame.symbol_pos_map.map[Head(items)])]]
    /\ UNCHANGED <<host, position_counter, positions>>

\* lines 163-164, about the state created last
Line163(t) ==
    /\ thr[t].pc = "L163"
    /\ thr' = [thr EXCEPT ![t] = AnyStep(t, Len(thr[t].dfa.states) - 1, "L153")]
    /\ UNCHANGED <<host, position_counter, positions>>

RegexesConc == StringsUpTo(Chars, MaxLenConc)

InitConc ==
    /\ host = "app"
    /\ position_counter = 1
    /\ positions = <<>>
    /\ \E r1, r2 \in RegexesConc :
           thr = [t \in {1, 2} |-> Idle(IF t = 1 THEN r1 ELSE r2, 0)]

NextConc ==
    \E t \in {1, 2} :
        \/ Line202(t)
        \/ Line203(t)
        \/ Line84(t)
        \/ Line85(t)
        \/ Line86(t)
        \/ Line87(t)
        \/ Line88(t)
        \/ AnnotateInner(t)
        \/ Line126(t)
        \/ Line140(t)
        \/ Line144(t)
        \/ Line149(t)
        \/ Line153(t)
        \/ Line163(t)
        \/ Return(t)

SpecConc == InitConc /\ [][NextConc]_vars

(* ------------------- reference notions used by the claims --------------- *)

Range(f) == {f[x] : x \in DOMAIN f}

\* the grammar of the parser, read as a definition of its sentences:
\*   expression := term ('|' term)*      term := factor+
\*   factor := base ('*' | '+')*         base := '(' expression ')' | symbolChar
RECURSIVE IsExpression(_), IsTerm(_), IsFactor(_), IsBase(_)
IsBase(s) ==
    \/ Len(s) = 1 /\ (isalnum(s[1]) \/ s[1] = "#")
    \/ Len(s) >= 3 /\ s[1] = "(" /\ s[Len(s)] = ")"
                   /\ IsExpression(SubSeq(s, 2, Len(s) - 1))
IsFactor(s) ==
    \/ IsBase(s)
    \/ Len(s) >= 2 /\ s[Len(s)] \in {"*", "+"} /\ IsFactor(SubSeq(s, 1, Len(s) - 1))
IsTerm(s) ==
    \/ IsFactor(s)
    \/ \E k \in 1..(Len(s) - 1) :
           IsFactor(SubSeq(s, 1, k)) /\ IsTerm(SubSeq(s, k + 1, Len(s)))
IsExpression(s) ==
    \/ IsTerm(s)
    \/ \E k \in 1..Len(s) :
           s[k] = "|" /\ IsTerm(SubSeq(s, 1, k - 1))
                      /\ IsExpression(SubSeq(s, k + 1, Len(s)))

\* the number of '(' still open at the end of s (a ')' closes the nearest
\* open one; a ')' with nothing open closes nothing)
RECURSIVE OpenAtEnd(_, _)
OpenAtEnd(s, depth) ==
    IF s = <<>> THEN depth
    ELSE IF Head(s) = "(" THEN OpenAtEnd(Tail(s), depth + 1)
    ELSE IF Head(s) = ")" /\ depth > 0 THEN OpenAtEnd(Tail(s), depth - 1)
    ELSE OpenAtEnd(Tail(s), depth)
EndsUnmatched(s) == OpenAtEnd(s, 0) > 0

\* the language of the syntax tree under node n: X+ is the tree X X*
RECURSIVE Matches(_, _, _)
Matches(heap, n, w) ==
    LET node == heap[n] IN
    IF node.type = "symbol" THEN w = <<node.symbol>>
    ELSE IF node.type = "concat" THEN
        \E k \in 0..Len(w) : /\ Matches(heap, node.left, SubSeq(w, 1, k))
                             /\ Matches(heap, node.right, SubSeq(w, k + 1, Len(w)))
    ELSE IF node.type = "union" THEN
        Matches(heap, node.left, w) \/ Matches(heap, node.right, w)
    ELSE
        \/ w = <<>>
        \/ \E k \in 1..Len(w) : /\ Matches(heap, node.left, SubSeq(w, 1, k))
                                /\ Matches(heap, n, SubSeq(w, k + 1, Len(w)))

\* a run of the automaton construct_dfa returned from state s; Len(states)
\* stands for "no transition"
RECURSIVE RunFrom(_, _, _)
RunFrom(states, s, w) ==
    IF s = Len(states) \/ w = <<>> THEN s
    ELSE IF Head(w) \in DOMAIN states[s + 1]
         THEN RunFrom(states, states[s + 1][Head(w)], Tail(w))
         ELSE Len(states)
Accepts(d, w) == RunFrom(d.states, 0, w) \in d.accepting_states

\* the leaves of the tree under n, left to right, one entry per occurrence
RECURSIVE LeafOccurrences(_, _)
LeafOccurrences(heap, n) ==
    IF n = 0 THEN <<>>
    ELSE IF heap[n].type = "symbol" THEN <<n>>
    ELSE LeafOccurrences(heap, heap[n].left) \o LeafOccurrences(heap, heap[n].right)

WholeInputParsed == thr[1].parser.pos = Len(thr[1].regex)
\* the parser stopped (returned or raised) with no character left to read
ReachedEnd == thr[1].parser.pos >= Len(thr[1].regex)
Converted == Done /\ thr[1].out.status # "redirect"

(* ------------------------- claims checked under Spec -------------------- *)

\* C1: for an accepted regular expression over alphanumeric symbols (the
\* whole input is one expression, no literal '#'), the returned automaton
\* accepts a word over the regex's symbols iff the word is in the language
\* of the regex, for every word of length at most MaxWord.
C1_LanguageCorrect ==
    (Ok /\ WholeInputParsed /\ "#" \notin Range(thr[1].regex)) =>
        \A w \in StringsUpTo(Range(thr[1].regex) \cap Alnum, MaxWord) :
            Accepts(thr[1].dfa, w)
                <=> Matches(thr[1].heap, thr[1].heap[thr[1].root].left, w)

\* C1 witness: "a+|b" converted; it accepts "aa" and "b" and rejects "ab"
C1_Witness ==
    /\ Ok /\ thr[1].regex = <<"a", "+", "|", "b">>
    /\ Accepts(thr[1].dfa, <<"a", "a">>)
    /\ Accepts(thr[1].dfa, <<"b">>)
    /\ ~Accepts(thr[1].dfa, <<"a", "b">>)

\* C2: for an input that is not, as a whole, a sentence of the grammar,
\* parse raises an error and the conversion fails without an automaton; an
\* automaton is built only for a whole expression.
C2_NonSentenceRejected ==
    (Converted /\ ~IsExpression(thr[1].regex)) =>
        /\ thr[1].parser.err # NoError
        /\ thr[1].out.status = "error"
        /\ thr[1].dfa = NoDfa

\* C3 (as stated): an input that ends with a '(' still open fails with
\* 'Mismatched parentheses'.
C3_UnmatchedIsMismatched ==
    (Converted /\ EndsUnmatched(thr[1].regex)) =>
        /\ thr[1].out.status = "error"
        /\ thr[1].out.message = MismatchedParentheses

\* C3 (amended): when the parser reaches the end of an input that ends with
\* a '(' still open, parsing fails; the error is 'Mismatched parentheses'
\* when the input ends after a complete expression inside the parenthesis,
\* and 'Unexpected character: None' when it ends where a base is required
\* (right after '(' or '|').
C3_UnmatchedFails ==
    (Converted /\ EndsUnmatched(thr[1].regex) /\ ReachedEnd) =>
        LET last == thr[1].regex[Len(thr[1].regex)] IN
        /\ thr[1].out.status = "error"
        /\ thr[1].out.message =
               IF last \in {"(", "|"} THEN UnexpectedCharacter(None)
               ELSE MismatchedParentheses

\* C3 witness: "((" fails with 'Unexpected character: None'
C3_Witness ==
    /\ Converted /\ thr[1].regex = <<"(", "(">> /\ ReachedEnd
    /\ thr[1].out.message = UnexpectedCharacter(None)

\* C6: a state is accepting iff its position-set holds the end marker's
\* position, the last position assigned (the right operand of the top-level
\* concatenation).
C6_AcceptingIffEndMarker ==
    Ok =>
        /\ thr[1].heap[thr[1].heap[thr[1].root].right].position
               = position_counter - 1
        /\ \A i \in DOMAIN thr[1].dfa.state_pos :
               i \in thr[1].dfa.accepting_states
                   <=> (position_counter - 1) \in Elems(thr[1].dfa.state_pos[i])

\* C7: after annotate the position table's keys are 1..n, n the number of
\* leaf occurrences; every leaf occurrence holds a position of its own; and
\* every node's firstpos and lastpos lie within 1..n.
C7_PositionsUniqueDense ==
    Ok =>
        LET occ == LeafOccurrences(thr[1].heap, thr[1].root)
            n == Len(occ)
        IN
        /\ DOMAIN positions = 1..n
        /\ \A i, j \in 1..n :
               i # j => thr[1].heap[occ[i]].position # thr[1].heap[occ[j]].position
        /\ \A k \in DOMAIN thr[1].heap :
               /\ Elems(thr[1].heap[k].firstpos) \subseteq 1..n
               /\ Elems(thr[1].heap[k].lastpos) \subseteq 1..n

\* C10: the returned automaton has no state with an empty position-set;
\* every position of a state whose symbol is not '#' has a non-empty
\* followpos; a state has a transition for exactly the symbols other than
\* '#' its positions carry; every target is an existing state.
C10_NoDeadState ==
    Ok =>
        LET d == thr[1].dfa
            fp == thr[1].followpos_table
        IN
        \A i \in DOMAIN d.state_pos :
            /\ Elems(d.state_pos[i]) # {}
            /\ \A p \in Elems(d.state_pos[i]) :
                   positions[p] # "#" => (p \in DOMAIN fp /\ Elems(fp[p]) # {})
            /\ DOMAIN d.states[i + 1]
                   = {positions[p] : p \in Elems(d.state_pos[i])} \ {"#"}
            /\ \A a \in DOMAIN d.states[i + 1] :
                   d.states[i + 1][a] \in 0..(Len(d.states) - 1)

\* C10 witness: "a#b+" converted: three states, one of them holding the
\* position of the literal '#'
C10_Witness ==
    /\ Ok /\ thr[1].regex = <<"a", "#", "b", "+">>
    /\ Len(thr[1].dfa.states) >= 2
    /\ \E i \in DOMAIN thr[1].dfa.state_pos : 2 \in Elems(thr[1].dfa.state_pos[i])

(* ------------------------ claim checked under SpecSeq ------------------- *)

\* a process that has just been started: lines 77-78
FreshGlobals == [position_counter |-> 1, positions |-> <<>>]

\* the conversion just finished left what the conversion c left
SameAs(c) ==
    /\ thr[1].out = c.out
    /\ thr[1].dfa.state_pos = c.dfa.state_pos
    /\ positions = c.positions
    /\ position_counter = c.position_counter

\* C5: whatever conversions came before, a conversion leaves the automaton,
\* the position table and the counter that the same regex gives as the first
\* conversion of a fresh process: numbering restarts at 1 and no entry of an
\* earlier conversion remains.
C5_SameAsFresh ==
    Converted =>
        /\ SameAs(Conversion(host, thr[1].regex, FreshGlobals))
        /\ DOMAIN positions = 1..(position_counter - 1)

\* C5 witness: "a" converted as a later conversion of the process
C5_Witness ==
    /\ Ok /\ thr[1].served >= 2 /\ thr[1].regex = <<"a">>
    /\ DOMAIN positions = {1, 2}

(* ------------------------ claims checked under SpecDfa ------------------ *)

RECURSIVE Pow2(_)
Pow2(n) == IF n = 0 THEN 1 ELSE 2 * Pow2(n - 1)

InWorklist == thr[1].pc = "loop" \/ Ok

\* at every step of the loop: state_pos and pos_state are inverse of each
\* other (distinct indices, distinct position-sets), the queue holds
\* distinct existing indices, and there are at most 2^n states
C8_LoopInvariant ==
    InWorklist =>
        LET d == thr[1].dfa
            ids == 0..(Len(d.states) - 1)
        IN
        /\ DOMAIN d.state_pos = ids
        /\ \A i, j \in ids : i # j => Elems(d.state_pos[i]) # Elems(d.state_pos[j])
        /\ DOMAIN d.pos_state = {Elems(d.state_pos[i]) : i \in ids}
        /\ \A i \in ids : d.pos_state[Elems(d.state_pos[i])] = i
        /\ Range(d.queue) \subseteq ids
        /\ \A i, j \in DOMAIN d.queue : i < j => d.queue[i] < d.queue[j]
        /\ Len(d.states) <= Pow2(Cardinality(DOMAIN positions))

\* what is left to do: two for every position-set not yet a state, one for
\* every state waiting in the queue
Remaining(d) ==
    2 * (Pow2(Cardinality(DOMAIN positions)) - Len(d.states)) + Len(d.queue)

\* a pass of the loop enqueues only states it has just created, and leaves
\* strictly less to do
C8_PassDecreases ==
    (thr[1].pc = "loop" /\ thr'[1].pc = "loop") =>
        /\ \A i \in Range(thr'[1].dfa.queue) \ Range(thr[1].dfa.queue) :
               i \notin DOMAIN thr[1].dfa.state_pos
        /\ Remaining(thr'[1].dfa) < Remaining(thr[1].dfa)

\* C8: the worklist loop terminates (every pass strictly decreases a natural
\* number); at every step distinct state indices have distinct position-sets
\* (pos_state and state_pos inverse of each other), each position-set is
\* enqueued at most once, and there are at most 2^n states, n the number of
\* positions.
C8_WorklistTerminates ==
    /\ []C8_LoopInvariant
    /\ [][C8_PassDecreases]_vars

\* C8 witness: a finished construction of three states
C8_Witness ==
    /\ Ok /\ Len(thr[1].dfa.states) = 3 /\ thr[1].dfa.queue = <<>>

\* an automaton up to the numbering of its states
PositionSets(d) == [i \in DOMAIN d.state_pos |-> Elems(d.state_pos[i])]
AbstractOf(d) ==
    [sets |-> Range(PositionSets(d)),
     accepting |-> {PositionSets(d)[i] : i \in d.accepting_states},
     transitions |->
         UNION {{<<PositionSets(d)[i], a, PositionSets(d)[d.states[i + 1][a]]>> :
                    a \in DOMAIN d.states[i + 1]} : i \in DOMAIN d.state_pos}]

\* C9: in whatever order the positions of each dequeued state were iterated,
\* the finished automaton has the position-sets, accepting position-sets and
\* transitions of the one built in set order, and state 0 is firstpos(root).
C9_OrderIndependent ==
    Ok =>
        /\ AbstractOf(thr[1].dfa)
               = AbstractOf(construct_dfa(thr[1].heap[thr[1].root].firstpos,
                                          thr[1].followpos_table, positions))
        /\ PositionSets(thr[1].dfa)[0] = Elems(thr[1].heap[thr[1].root].firstpos)

\* C9 witness: a finished run whose state numbering differs from the one
\* built in set order
C9_Witness ==
    /\ Ok
    /\ PositionSets(thr[1].dfa)
           # PositionSets(construct_dfa(thr[1].heap[thr[1].root].firstpos,
                                        thr[1].followpos_table, positions))

(* ------------------------ claim checked under SpecConc ------------------ *)

\* C4: each of two interleaved conversions returns what it returns when run
\* alone.
C4_Isolated ==
    \A t \in DOMAIN thr :
        (thr[t].pc = "done" /\ thr[t].out.status # "redirect") =>
            thr[t].out = Conversion("app", thr[t].regex, FreshGlobals).out

====
